---- MODULE Spec2Model ----
(***************************************************************************)
(* Model of src/index.js: an express service over one sqlite3 database     *)
(* with two tables, users and messages, and five request handlers.         *)
(*                                                                         *)
(* A request goes through three steps, as in the code: the handler's       *)
(* synchronous part (read the body, generate the userid, hand a statement  *)
(* to the database), the database executing the statement, and the         *)
(* callback that sends the response.  Steps of different requests          *)
(* interleave freely.  The process may be restarted on the same database   *)
(* file; startup then runs the schema creation again.                      *)
(***************************************************************************)
EXTENDS Integers, Sequences, FiniteSets, TLC

\* ---------------------------------------------------------------- bounds
MaxReq == 2        \* requests received over one behaviour

\* ---------------------------------------------------------------- values
\* A JSON body field that is absent destructures to undefined (index.js:126, 219)
Undefined == "<undefined>"
\* SQL NULL
NULL == "<NULL>"
\* the callback's err argument when the statement succeeded
NoError == "<null>"

\* values uuidv4() can return; a small set, so that collisions happen
UUIDs == {"uuid-1", "uuid-2"}
Usernames == {"alice", Undefined}
\* JSON bodies of POST /messages: complete ones, and ones lacking one field
MessageBodies ==
    [sender : {"uuid-1"}, receiver : UUIDs, message : {"hi"}]
    \cup {[sender |-> Undefined, receiver |-> "uuid-2", message |-> "hi"],
          [sender |-> "uuid-1", receiver |-> Undefined, message |-> "hi"],
          [sender |-> "uuid-1", receiver |-> "uuid-2", message |-> Undefined]}

GET_users == "GET /users"
POST_users == "POST /users"
POST_messages == "POST /messages"
GET_messages_userid == "GET /messages/:userid"
GET_super_messages == "GET /super/messages"

StatusOK == 200
StatusError == 500
InternalServerError == [error |-> "Internal server error"]

VARIABLES
    tables,           \* names of the tables the database file holds
    users,            \* rows of table users, in rowid order
    messages,         \* rows of table messages, in rowid order
    sqlite_sequence,  \* AUTOINCREMENT counters, per table
    insertedBy,       \* history: message id -> index of the request that inserted it
    reqs,             \* every request received so far
    survivors,        \* history: the requests answered before the last restart
    startupFailed     \* the schema creation of the last startup raised an error

vars == <<tables, users, messages, sqlite_sequence, insertedBy, reqs, survivors, startupFailed>>

\* ---------------------------------------------------------------- store
\* variant: the value is bound as given, an absent field as a text
BindAsGiven(v) == v

\* node-sqlite3 binds undefined and null as SQL NULL, a string as TEXT
Bind(v) == IF v = Undefined THEN NULL ELSE v

\* variant: the connection enforces foreign keys
foreign_keys_on == TRUE

\* PRAGMA foreign_keys: off unless the connection turns it on; the code never does
foreign_keys == FALSE

Userids(us) == {us[k].userid : k \in 1..Len(us)}

\* the database file as startup sees it
Database(t, us, ms) == [tables |-> t, users |-> us, messages |-> ms, err |-> FALSE]

\* variant: CREATE TABLE users, which is an error when the table exists
CreateUsersTableUnguarded(db) ==
    IF "users" \in db.tables
    THEN [db EXCEPT !.err = TRUE]
    ELSE [db EXCEPT !.tables = db.tables \cup {"users"}, !.users = <<>>]

\* CREATE TABLE IF NOT EXISTS users: nothing happens when the table exists
CreateUsersTable(db) ==
    IF "users" \in db.tables
    THEN db
    ELSE [db EXCEPT !.tables = db.tables \cup {"users"}, !.users = <<>>]

\* CREATE TABLE IF NOT EXISTS messages: nothing happens when the table exists
CreateMessagesTable(db) ==
    IF "messages" \in db.tables
    THEN db
    ELSE [db EXCEPT !.tables = db.tables \cup {"messages"}, !.messages = <<>>]

\* db.serialize: the two CREATE TABLE statements, in order
CreateTables(db) == CreateMessagesTable(CreateUsersTable(db))

\* variant: the column userid is not declared UNIQUE
InsertUserNotUnique(us, seq, userid, username) ==
    LET u == Bind(userid)
        n == Bind(username)
    IN  IF u = NULL \/ n = NULL
        THEN [err |-> "SQLITE_CONSTRAINT", rows |-> us, seq |-> seq, lastID |-> 0]
        ELSE [err |-> NoError,
              rows |-> Append(us, [id |-> seq + 1, userid |-> u, username |-> n]),
              seq |-> seq + 1, lastID |-> seq + 1]

\* variant: the two values are given in the wrong order
InsertUserSwapped(us, seq, userid, username) ==
    LET u == Bind(username)
        n == Bind(userid)
    IN  IF u = NULL \/ n = NULL \/ \E k \in 1..Len(us) : us[k].userid = u
        THEN [err |-> "SQLITE_CONSTRAINT", rows |-> us, seq |-> seq, lastID |-> 0]
        ELSE [err |-> NoError,
              rows |-> Append(us, [id |-> seq + 1, userid |-> u, username |-> n]),
              seq |-> seq + 1, lastID |-> seq + 1]

\* INSERT INTO users (userid, username) VALUES (?, ?)
InsertUser(us, seq, userid, username) ==
    LET u == Bind(userid)
        n == Bind(username)
    IN  IF u = NULL \/ n = NULL \/ u \in Userids(us)
        THEN [err |-> "SQLITE_CONSTRAINT", rows |-> us, seq |-> seq, lastID |-> 0]
        ELSE [err |-> NoError,
              rows |-> Append(us, [id |-> seq + 1, userid |-> u, username |-> n]),
              seq |-> seq + 1, lastID |-> seq + 1]

\* INSERT INTO messages (sender, receiver, message) VALUES (?, ?, ?)
InsertMessage(ms, seq, us, sender, receiver, message) ==
    LET s == Bind(sender)
        r == Bind(receiver)
        m == Bind(message)
    IN  IF \/ s = NULL \/ r = NULL \/ m = NULL
           \/ (foreign_keys /\ (s \notin Userids(us) \/ r \notin Userids(us)))
        THEN [err |-> "SQLITE_CONSTRAINT", rows |-> ms, seq |-> seq, lastID |-> 0]
        ELSE [err |-> NoError,
              rows |-> Append(ms, [id |-> seq + 1, sender |-> s, receiver |-> r, message |-> m]),
              seq |-> seq + 1, lastID |-> seq + 1]

\* SELECT userid,username FROM users
SelectUsers(us) ==
    [k \in 1..Len(us) |-> [userid |-> us[k].userid, username |-> us[k].username]]

\* variant: SELECT * FROM messages WHERE sender = ?
SelectMessagesWhereSender(ms, userid) ==
    SelectSeq(ms, LAMBDA row : row.sender = userid)

\* variant: the WHERE clause is missing
SelectMessagesNoWhere(ms, userid) == ms

\* SELECT * FROM messages WHERE receiver = ?
SelectMessagesWhereReceiver(ms, userid) ==
    SelectSeq(ms, LAMBDA row : row.receiver = Bind(userid))

\* variant: the statement of the per-user listing, with no parameter bound
SelectAllMessagesWhereReceiver(ms) ==
    SelectSeq(ms, LAMBDA row : row.receiver = NULL)

\* SELECT * FROM messages
SelectAllMessages(ms) == ms

\* ---------------------------------------------------------------- requests
NewReq(op) ==
    [op |-> op, username |-> Undefined, sender |-> Undefined, receiver |-> Undefined,
     message |-> Undefined, userid |-> Undefined,
     phase |-> "pending", err |-> NoError, rows |-> <<>>, lastID |-> 0,
     changed |-> FALSE, nexec |-> 0, resp |-> <<>>,
     after |-> {j \in 1..Len(reqs) : reqs[j].phase = "responded"}]

Serving == ~startupFailed /\ Len(reqs) < MaxReq

Receive(r) ==
    /\ Serving
    /\ reqs' = Append(reqs, r)
    /\ UNCHANGED <<tables, users, messages, sqlite_sequence, insertedBy, survivors, startupFailed>>

\* app.get('/users'): hands the SELECT to the database
GetUsers == Receive(NewReq(GET_users))

\* function generateRandomUserid
generateRandomUserid == UUIDs

\* app.post('/users'): reads username, generates the userid, hands the INSERT over
PostUsers ==
    \E username \in Usernames, userid \in generateRandomUserid :
        Receive([NewReq(POST_users) EXCEPT !.username = username, !.userid = userid])

\* app.post('/messages'): reads sender, receiver, message, hands the INSERT over
PostMessages ==
    \E body \in MessageBodies :
        Receive([NewReq(POST_messages) EXCEPT
                    !.sender = body.sender, !.receiver = body.receiver,
                    !.message = body.message])

\* app.get('/messages/:userid')
GetMessagesUserid ==
    \E userid \in UUIDs :
        Receive([NewReq(GET_messages_userid) EXCEPT !.userid = userid])

\* app.get('/super/messages')
GetSuperMessages == Receive(NewReq(GET_super_messages))

\* ---------------------------------------------------------------- database steps
IsPending(i, op) ==
    /\ ~startupFailed
    /\ i \in 1..Len(reqs)
    /\ reqs[i].op = op
    /\ reqs[i].phase = "pending"

\* the statement failed for a reason of the store's own (busy, I/O): nothing changes
Faulted(i) ==
    /\ reqs' = [reqs EXCEPT ![i].phase = "done", ![i].err = "SQLITE_BUSY",
                             ![i].nexec = @ + 1]
    /\ UNCHANGED <<tables, users, messages, sqlite_sequence, insertedBy, survivors, startupFailed>>

\* db.all('SELECT userid,username FROM users', ...)
AllUsers(i) ==
    /\ IsPending(i, GET_users)
    /\ \/ Faulted(i)
       \/ /\ reqs' = [reqs EXCEPT ![i].phase = "done", ![i].rows = SelectUsers(users),
                                    ![i].nexec = @ + 1]
          /\ UNCHANGED <<tables, users, messages, sqlite_sequence, insertedBy, survivors, startupFailed>>

\* db.all('SELECT * FROM messages WHERE receiver = ?', [userid], ...)
AllMessagesWhereReceiver(i) ==
    /\ IsPending(i, GET_messages_userid)
    /\ \/ Faulted(i)
       \/ /\ reqs' = [reqs EXCEPT ![i].phase = "done",
                                    ![i].rows = SelectMessagesWhereReceiver(messages, reqs[i].userid),
                                    ![i].nexec = @ + 1]
          /\ UNCHANGED <<tables, users, messages, sqlite_sequence, insertedBy, survivors, startupFailed>>

\* db.all('SELECT * FROM messages', ...)
AllMessages(i) ==
    /\ IsPending(i, GET_super_messages)
    /\ \/ Faulted(i)
       \/ /\ reqs' = [reqs EXCEPT ![i].phase = "done", ![i].rows = SelectAllMessages(messages),
                                    ![i].nexec = @ + 1]
          /\ UNCHANGED <<tables, users, messages, sqlite_sequence, insertedBy, survivors, startupFailed>>

\* db.run('INSERT INTO users (userid, username) VALUES (?, ?)', [userid, username], ...)
RunInsertUser(i) ==
    /\ IsPending(i, POST_users)
    /\ \/ Faulted(i)
       \/ LET res == InsertUser(users, sqlite_sequence.users, reqs[i].userid, reqs[i].username)
          IN  /\ users' = res.rows
              /\ sqlite_sequence' = [sqlite_sequence EXCEPT !.users = res.seq]
              /\ reqs' = [reqs EXCEPT ![i].phase = "done", ![i].err = res.err,
                                       ![i].lastID = res.lastID, ![i].nexec = @ + 1,
                                       ![i].changed = (res.rows # users)]
              /\ UNCHANGED <<tables, messages, insertedBy, survivors, startupFailed>>

\* db.run('INSERT INTO messages (sender, receiver, message) VALUES (?, ?, ?)', ...)
\* this.lastID is the rowid of the statement's own insert, taken when it completes
RunInsertMessage(i) ==
    /\ IsPending(i, POST_messages)
    /\ \/ Faulted(i)
       \/ LET res == InsertMessage(messages, sqlite_sequence.messages, users,
                                   reqs[i].sender, reqs[i].receiver, reqs[i].message)
          IN  /\ messages' = res.rows
              /\ sqlite_sequence' = [sqlite_sequence EXCEPT !.messages = res.seq]
              /\ insertedBy' = IF res.err = NoError
                                THEN insertedBy @@ (res.lastID :> i)
                                ELSE insertedBy
              /\ reqs' = [reqs EXCEPT ![i].phase = "done", ![i].err = res.err,
                                       ![i].lastID = res.lastID, ![i].nexec = @ + 1,
                                       ![i].changed = (res.rows # messages)]
              /\ UNCHANGED <<tables, users, survivors, startupFailed>>

\* ---------------------------------------------------------------- callbacks
IsDone(i, op) ==
    /\ ~startupFailed
    /\ i \in 1..Len(reqs)
    /\ reqs[i].op = op
    /\ reqs[i].phase = "done"

Response(status, body) == [status |-> status, body |-> body]

Send(i, responses) ==
    /\ reqs' = [reqs EXCEPT ![i].phase = "responded", ![i].resp = @ \o responses]
    /\ UNCHANGED <<tables, users, messages, sqlite_sequence, insertedBy, survivors, startupFailed>>

\* the callback of the three listing handlers: rows, or the fixed error
ListCallback(r) ==
    IF r.err # NoError
    THEN <<Response(StatusError, InternalServerError)>>
    ELSE <<Response(StatusOK, r.rows)>>

GetUsersCallback(i) == IsDone(i, GET_users) /\ Send(i, ListCallback(reqs[i]))

GetMessagesUseridCallback(i) ==
    IsDone(i, GET_messages_userid) /\ Send(i, ListCallback(reqs[i]))

GetSuperMessagesCallback(i) ==
    IsDone(i, GET_super_messages) /\ Send(i, ListCallback(reqs[i]))

\* variant: the response carries this.changes in place of this.lastID
MessageSentChanges(r) ==
    IF r.err # NoError
    THEN <<Response(StatusError, InternalServerError)>>
    ELSE <<Response(StatusOK, [message |-> "Message sent successfully", id |-> 1])>>

\* function (err) { ... res.json({ message: 'Message sent successfully', id: this.lastID }) }
MessageSent(r) ==
    IF r.err # NoError
    THEN <<Response(StatusError, InternalServerError)>>
    ELSE <<Response(StatusOK, [message |-> "Message sent successfully", id |-> r.lastID])>>

PostMessagesCallback(i) == IsDone(i, POST_messages) /\ Send(i, MessageSent(reqs[i]))

\* variant: the else is missing, so the error response is followed by { userid }
UserCreatedNoElse(r) ==
    IF r.err # NoError
    THEN <<Response(StatusError, InternalServerError),
           Response(StatusOK, [userid |-> r.userid])>>
    ELSE <<Response(StatusOK, [userid |-> r.userid])>>

\* function (err) { ... res.json({ userid }) }
UserCreated(r) ==
    IF r.err # NoError
    THEN <<Response(StatusError, InternalServerError)>>
    ELSE <<Response(StatusOK, [userid |-> r.userid])>>

PostUsersCallback(i) == IsDone(i, POST_users) /\ Send(i, UserCreated(reqs[i]))

\* ---------------------------------------------------------------- process
\* a request in flight when the process stops: what the process held for it is gone
Lost(r) ==
    [r EXCEPT !.phase = "lost", !.err = NoError, !.rows = <<>>, !.lastID = 0,
              !.nexec = 0, !.changed = FALSE]

\* The process stops and is started again on the same database file: requests
\* in flight are never answered, statements not yet executed never run, and
\* startup runs the schema creation again.
Restart ==
    /\ LET db == CreateTables(Database(tables, users, messages))
       IN  /\ tables' = db.tables
           /\ users' = db.users
           /\ messages' = db.messages
           /\ startupFailed' = db.err
    /\ survivors' = {j \in 1..Len(reqs) : reqs[j].phase = "responded"}
    /\ reqs' = [j \in 1..Len(reqs) |->
                  IF reqs[j].phase \in {"pending", "done"}
                  THEN Lost(reqs[j])
                  ELSE reqs[j]]
    /\ UNCHANGED <<sqlite_sequence, insertedBy>>

\* first start, on a database file that does not exist yet
Init ==
    LET db == CreateTables(Database({}, <<>>, <<>>))
    IN  /\ tables = db.tables
        /\ users = db.users
        /\ messages = db.messages
        /\ startupFailed = db.err
        /\ sqlite_sequence = [users |-> 0, messages |-> 0]
        /\ insertedBy = <<>>
        /\ reqs = <<>>
        /\ survivors = {}

Next ==
    \/ GetUsers
    \/ PostUsers
    \/ PostMessages
    \/ GetMessagesUserid
    \/ GetSuperMessages
    \/ \E i \in 1..Len(reqs) : AllUsers(i)
    \/ \E i \in 1..Len(reqs) : AllMessagesWhereReceiver(i)
    \/ \E i \in 1..Len(reqs) : AllMessages(i)
    \/ \E i \in 1..Len(reqs) : RunInsertUser(i)
    \/ \E i \in 1..Len(reqs) : RunInsertMessage(i)
    \/ \E i \in 1..Len(reqs) : GetUsersCallback(i)
    \/ \E i \in 1..Len(reqs) : GetMessagesUseridCallback(i)
    \/ \E i \in 1..Len(reqs) : GetSuperMessagesCallback(i)
    \/ \E i \in 1..Len(reqs) : PostMessagesCallback(i)
    \/ \E i \in 1..Len(reqs) : PostUsersCallback(i)

\* one lifetime of the process
Spec == Init /\ [][Next]_vars

NextRestart == Next \/ Restart

\* the process restarted any number of times on the same database file
SpecRestart == Init /\ [][NextRestart]_vars

\* ---------------------------------------------------------------- properties
Reqs == 1..Len(reqs)

Answered(i) == reqs[i].phase = "responded"

\* request i was answered once, with 200
Ok(i) == Answered(i) /\ Len(reqs[i].resp) = 1 /\ reqs[i].resp[1].status = StatusOK

\* request i was answered once, with 500 and the fixed body
Failed(i) == Answered(i) /\ reqs[i].resp = <<Response(StatusError, InternalServerError)>>

Body(i) == reqs[i].resp[1].body

IsPrefix(a, b) == Len(a) <= Len(b) /\ \A k \in 1..Len(a) : a[k] = b[k]

Contains(rows, row) == \E k \in 1..Len(rows) : rows[k] = row

Complete(i) ==
    /\ reqs[i].sender # Undefined
    /\ reqs[i].receiver # Undefined
    /\ reqs[i].message # Undefined

\* the messages now stored for receiver u
Addressed(u) == SelectSeq(messages, LAMBDA row : row.receiver = u)

CreatedUserIsListed ==
    \A c \in Reqs, l \in Reqs :
        (/\ reqs[c].op = POST_users /\ Ok(c)
         /\ reqs[l].op = GET_users /\ Ok(l)
         /\ c \in reqs[l].after)
        => Contains(Body(l), [userid |-> Body(c).userid, username |-> reqs[c].username])

\* C2 as stated: a create-user with a username always returns a userid (the
\* store's own faults left aside), and later listings hold the pair
C2_CreateAlwaysReturnsUserid ==
    /\ \A c \in Reqs :
          (/\ reqs[c].op = POST_users /\ Answered(c)
           /\ reqs[c].username # Undefined
           /\ reqs[c].err # "SQLITE_BUSY")
          => (Ok(c) /\ Body(c).userid \in UUIDs)
    /\ CreatedUserIsListed

\* C2, amended: a create-user with a username returns the generated userid when
\* its insert succeeds and the fixed 500 when the store rejects or fails it (as
\* it does when the generated userid is already stored); later listings hold
\* the returned userid with the submitted username
C2_CreateReturnsUseridUnlessRejected ==
    /\ \A c \in Reqs :
          (reqs[c].op = POST_users /\ Answered(c) /\ reqs[c].username # Undefined)
          => /\ reqs[c].err = NoError => (Ok(c) /\ Body(c) = [userid |-> reqs[c].userid])
             /\ reqs[c].err # NoError => Failed(c)
             /\ reqs[c].err = "SQLITE_CONSTRAINT" =>
                    \E k \in 1..Len(users) : users[k].userid = reqs[c].userid
    /\ CreatedUserIsListed

C2_Witness ==
    \E c \in Reqs, l \in Reqs :
        /\ reqs[c].op = POST_users /\ Ok(c)
        /\ reqs[l].op = GET_users /\ Ok(l)
        /\ c \in reqs[l].after
        /\ Body(l) = <<[userid |-> Body(c).userid, username |-> "alice"]>>

C4_ListIsExactlyReceivers ==
    \A l \in Reqs :
        (reqs[l].op = GET_messages_userid /\ Answered(l) /\ reqs[l].err = NoError)
        => /\ Ok(l)
           /\ IsPrefix(Body(l), Addressed(reqs[l].userid))
           /\ \A k \in 1..Len(Body(l)) : Body(l)[k].receiver = reqs[l].userid
           /\ \A s \in reqs[l].after :
                 (/\ reqs[s].op = POST_messages /\ Ok(s)
                  /\ reqs[s].receiver = reqs[l].userid)
                 => Contains(Body(l), messages[Body(s).id])
           /\ Addressed(reqs[l].userid) = <<>> => Body(l) = <<>>

\* a message for another receiver is stored and answered; the listing is empty
C4_Witness ==
    \E l \in Reqs, s \in Reqs :
        /\ reqs[l].op = GET_messages_userid /\ Ok(l)
        /\ reqs[s].op = POST_messages /\ Ok(s)
        /\ s \in reqs[l].after
        /\ reqs[s].receiver # reqs[l].userid
        /\ Body(l) = <<>>

\* the table messages is the sequence of successful inserts, each row as its
\* request gave it: no row was removed or altered
MessagesAreTheInserts ==
    /\ DOMAIN insertedBy = 1..Len(messages)
    /\ \A k \in 1..Len(messages) :
          LET r == reqs[insertedBy[k]]
          IN  messages[k] = [id |-> k, sender |-> r.sender, receiver |-> r.receiver,
                             message |-> r.message]

\* a listing of all messages answered 200 holds the stored rows up to its
\* statement, unfiltered, and every message sent successfully before the request
ListingIsAllStored ==
    \A l \in Reqs :
        (reqs[l].op = GET_super_messages /\ Answered(l) /\ reqs[l].err = NoError)
        => /\ Ok(l)
           /\ IsPrefix(Body(l), messages)
           /\ \A s \in reqs[l].after :
                 (reqs[s].op = POST_messages /\ Ok(s)) => Contains(Body(l), messages[Body(s).id])

\* C5 as stated: the rows of the administrative listing are exactly the
\* messages whose send was answered with success
C5_ListingIsTheAnsweredSends ==
    /\ MessagesAreTheInserts
    /\ ListingIsAllStored
    /\ \A l \in Reqs :
          (reqs[l].op = GET_super_messages /\ Ok(l))
          => \A k \in 1..Len(Body(l)) : Ok(insertedBy[Body(l)[k].id])

\* C5, amended: the administrative listing returns exactly the messages
\* inserted up to its statement, whatever the receiver: every message whose
\* send was answered with success before the request, and also those inserted
\* whose send is not answered yet; no row is ever removed or altered
C5_ListingIsTheInsertedMessages ==
    /\ MessagesAreTheInserts
    /\ ListingIsAllStored
    /\ \A l \in Reqs :
          (reqs[l].op = GET_super_messages /\ Ok(l))
          => \A k \in 1..Len(Body(l)) :
                LET s == insertedBy[Body(l)[k].id]
                IN  /\ reqs[s].op = POST_messages
                    /\ reqs[s].phase \in {"done", "responded", "lost"}
                    /\ Body(l)[k].receiver = reqs[s].receiver

\* the listing holds a message whose send has not been answered
C5_Witness ==
    \E l \in Reqs :
        /\ reqs[l].op = GET_super_messages /\ Ok(l)
        /\ \E k \in 1..Len(Body(l)) : ~Answered(insertedBy[Body(l)[k].id])

\* C6: the id a successful send returns is the id of the row that request
\* inserted; ids of different successful sends differ; a send received after
\* another was answered gets the larger id; the first row stored has id 1
C6_ReturnedIdIsOwnRow ==
    /\ \A s \in Reqs :
          (reqs[s].op = POST_messages /\ Ok(s))
          => /\ Body(s).id \in DOMAIN insertedBy
             /\ insertedBy[Body(s).id] = s
             /\ messages[Body(s).id] = [id |-> Body(s).id, sender |-> reqs[s].sender,
                                        receiver |-> reqs[s].receiver,
                                        message |-> reqs[s].message]
    /\ \A s \in Reqs, t \in Reqs :
          (/\ s # t
           /\ reqs[s].op = POST_messages /\ Ok(s)
           /\ reqs[t].op = POST_messages /\ Ok(t))
          => /\ Body(s).id # Body(t).id
             /\ s \in reqs[t].after => Body(s).id < Body(t).id
    /\ Len(messages) >= 1 => messages[1].id = 1

\* two sends in flight at the same time, answered in the reverse order
C6_Witness ==
    \E s \in Reqs, t \in Reqs :
        /\ s < t
        /\ reqs[s].op = POST_messages /\ Ok(s)
        /\ reqs[t].op = POST_messages /\ Ok(t)
        /\ s \notin reqs[t].after
        /\ Body(s).id = 2
        /\ Body(t).id = 1

\* C7: a request whose statement the store reported an error for is answered
\* once, with 500 and the fixed body; the statement ran once and left the
\* tables as they were
C7_StoreErrorIsOne500 ==
    \A r \in Reqs :
        (Answered(r) /\ reqs[r].err # NoError)
        => /\ reqs[r].resp = <<Response(StatusError, InternalServerError)>>
           /\ reqs[r].nexec = 1
           /\ ~reqs[r].changed

\* a listing and an insert both failed and were answered
C7_Witness ==
    \E r \in Reqs, q \in Reqs :
        /\ reqs[r].op \in {GET_users, GET_messages_userid, GET_super_messages}
        /\ reqs[q].op \in {POST_users, POST_messages}
        /\ Answered(r) /\ reqs[r].err # NoError
        /\ Answered(q) /\ reqs[q].err # NoError

\* C8: a complete send whose sender or receiver is the userid of no user is
\* answered 200 and its row is stored (the store's own faults left aside)
C8_OrphanSendSucceeds ==
    \A s \in Reqs :
        (/\ reqs[s].op = POST_messages /\ Answered(s) /\ Complete(s)
         /\ reqs[s].err # "SQLITE_BUSY"
         /\ (reqs[s].sender \notin Userids(users) \/ reqs[s].receiver \notin Userids(users)))
        => /\ Ok(s)
           /\ Contains(messages, [id |-> Body(s).id, sender |-> reqs[s].sender,
                                  receiver |-> reqs[s].receiver,
                                  message |-> reqs[s].message])

C8_Witness ==
    \E s \in Reqs :
        /\ reqs[s].op = POST_messages /\ Ok(s)
        /\ reqs[s].sender \notin Userids(users)
        /\ reqs[s].receiver \notin Userids(users)
        /\ Len(messages) = 1

NotNull(v) == v # NULL /\ v # Undefined

\* C9: no stored row has a null column; a send lacking sender, receiver or
\* message and a create-user lacking username are answered 500 and insert nothing
C9_NoNullColumns ==
    /\ \A k \in 1..Len(messages) :
          NotNull(messages[k].sender) /\ NotNull(messages[k].receiver)
          /\ NotNull(messages[k].message)
    /\ \A k \in 1..Len(users) : NotNull(users[k].userid) /\ NotNull(users[k].username)
    /\ \A r \in Reqs :
          (/\ Answered(r)
           /\ \/ (reqs[r].op = POST_messages /\ ~Complete(r))
              \/ (reqs[r].op = POST_users /\ reqs[r].username = Undefined))
          => (Failed(r) /\ ~reqs[r].changed)

C9_Witness ==
    \E r \in Reqs, q \in Reqs :
        /\ reqs[r].op = POST_messages /\ ~Complete(r)
        /\ Failed(r) /\ reqs[r].err = "SQLITE_CONSTRAINT"
        /\ reqs[q].op = POST_users /\ reqs[q].username = Undefined
        /\ Failed(q) /\ reqs[q].err = "SQLITE_CONSTRAINT"
        /\ users = <<>> /\ messages = <<>>

\* a step in which no request is received and none moves on: a restart
RestartStep ==
    /\ Len(reqs') = Len(reqs)
    /\ \A j \in 1..Len(reqs) : reqs'[j].phase \in {reqs[j].phase, "lost"}

\* Requests in flight at a restart are never answered, so a request answered
\* and not among the survivors was received after the last restart.
\* Every user created and message sent before the last restart is in the
\* listings received after it.
ListedAfterRestart ==
    \A c \in Reqs, l \in Reqs :
        (c \in survivors /\ l \notin survivors /\ Ok(c) /\ Ok(l))
        => /\ (reqs[c].op = POST_users /\ reqs[l].op = GET_users)
                => Contains(Body(l), [userid |-> Body(c).userid,
                                      username |-> reqs[c].username])
           /\ (/\ reqs[c].op = POST_messages
               /\ \/ reqs[l].op = GET_super_messages
                  \/ (reqs[l].op = GET_messages_userid /\ reqs[l].userid = reqs[c].receiver))
                => Contains(Body(l), [id |-> Body(c).id, sender |-> reqs[c].sender,
                                      receiver |-> reqs[c].receiver,
                                      message |-> reqs[c].message])

\* C10: a restart on a database that holds the two tables does not fail and
\* leaves every row of users and messages as it was, so that what was created
\* before it is listed after it
C10_StartupIsIdempotent ==
    /\ [][(RestartStep /\ tables = {"users", "messages"})
            => /\ ~startupFailed'
               /\ tables' = tables
               /\ users' = users
               /\ messages' = messages]_vars
    /\ []ListedAfterRestart

\* a user created before a restart is in a listing received after it
C10_Witness ==
    \E c \in Reqs, l \in Reqs :
        /\ reqs[c].op = POST_users /\ Ok(c)
        /\ reqs[l].op = GET_users /\ Ok(l)
        /\ c \in survivors /\ l \notin survivors
        /\ Body(l) = <<[userid |-> Body(c).userid, username |-> reqs[c].username]>>

====
